---- MODULE Spec2Model ----
(***************************************************************************)
(* archerfish: the `run` subcommand (lib/cli.js), the task scheduler and   *)
(* the hook runner (lib/tasks.js), driven by bin/archerfish.js.            *)
(*                                                                         *)
(* One step of the model is one synchronous stretch of JavaScript between  *)
(* two suspension points (an await that has to wait for user code, the     *)
(* browser or the file system).                                            *)
(***************************************************************************)
EXTENDS Integers, Sequences, FiniteSets, TLC

\* ---------------------------------------------------------------- bounds
MaxTasks == 3
MaxConcurrency == 2
MaxGlobs == 2
MaxShots == 3
MaxCaptures == 2
MaxNameLen == 5
MaxFileNameLen == 4

\* ---------------------------------------------------------------- values
Paths == 1..MaxTasks

Absent == "<absent>"
Undefined == "undefined"

\* The first argument of register(): a string, or (as in the README) an object.
StringName(s) == [kind |-> "string", key |-> s, inner |-> Undefined]
ObjectName(k, v) == [kind |-> "object", key |-> k, inner |-> v]

\* Object.defineProperty converts a non-string key with ToPropertyKey.
ToPropertyKey(name) == IF name.kind = "string" THEN name.key ELSE "[object Object]"
PropertyKeys == {"foo", "[object Object]"}

\* The fields runTask always puts into a task's args.
FixedKeys == {"profile", "browser", "getLogger", "sleep", "screenshot"}
AllKeys == FixedKeys \cup PropertyKeys

\* The calls a hook makes while it runs: register("foo", 42), and the README's
\* register({ foo: 42 }), whose second argument is missing.
RegisterCalls ==
  {[name |-> StringName("foo"), value |-> "42"],
   [name |-> ObjectName("foo", "42"), value |-> Undefined]}

\* The call a hook can leave in a callback that it does not wait for:
\* register("foo", 7).
DeferredCalls == {[name |-> StringName("foo"), value |-> "7"]}

EmptyObject == [k \in AllKeys |-> Absent]

\* opts.maxConcurrency as runTasks may receive it.
MaxConcurrencyValues ==
  {[kind |-> "undefined", val |-> 0], [kind |-> "NaN", val |-> 0],
   [kind |-> "fraction", val |-> 0]}
    \cup {[kind |-> "int", val |-> v] : v \in -1..MaxConcurrency}

Min(a, b) == IF a < b THEN a ELSE b

\* What a task or a hook can throw: an Error (has .stack), a value without
\* .stack that converts to a string (undefined, null, a string), or a value
\* whose conversion to a string throws (a Symbol, Object.create(null)).
ThrownKinds == {"Error", "undefined", "symbol"}

hookKeys == {"beforeAll", "afterAll"}

\* The keys a caller passes to runHook: the two hook keys, a name that is a
\* property of nothing, and a name every plain object inherits from
\* Object.prototype.
HookCallKeys == hookKeys \cup {"before", "constructor"}
ObjectPrototypeKeys == {"constructor"}

\* obj[key] for a plain object whose own keys are `own`: its own value, what
\* it inherits from Object.prototype, or undefined.
Lookup(own, key) ==
  IF key \in own THEN "<own>"
  ELSE IF key \in ObjectPrototypeKeys THEN "<inherited>"
  ELSE Undefined

\* ---------------------------------------------------------------- state
VARIABLES
  taskFilePaths,   \* what findTasks found: a sequence of distinct paths
  maxConcurrency,  \* opts.maxConcurrency
  hooks,           \* profile.hooks: the keys that have a hook path
  runPc,           \* where cli.run is
  runError,        \* what cli.run rejected with
  browser,         \* "none", "open", "closed"
  launches,        \* calls of puppeteer.launch
  closes,          \* calls of browser.close
  hookPc,          \* per key: "idle", "skipped", "running", "done", "failed"
  hookError,       \* per key: what runHook rejected with
  required,        \* the keys whose hook module runHook has passed to require
  hookArgs,        \* per key: the names in the args the hook function was called with
  hookResult,      \* per key: what runHook resolved with
  registeredArgs,  \* the object runHook(beforeAll) created and returned
  pending,         \* register calls left in callbacks that have not run yet
  hookCalls,       \* history: name -> value last registered while beforeAll ran
  objectCalls,     \* history: register({ foo: 42 }) was called while beforeAll ran
  runTasksPc,      \* "idle", "awaiting", "resolved", "rejected"
  queue,           \* the scheduler's queue
  workers,         \* the promises of startWorker: per worker, its position
  taskStatus,      \* per path: "queued", "running", "ok", "failed"
  thrown,          \* per path: what the task threw
  starts,          \* per path: how many times a worker took it from the queue
  invoked,         \* the paths whose task function was called
  context,         \* per path: the args its task function was called with
  logged,          \* paths with a "Task ... failed" line logged
  summaries,       \* "All tasks finished!" lines logged
  commandFailed,   \* the error handleUncaughtError logged
  unhandled,       \* handleUncaughtError itself threw
  exited,          \* process.exit was called
  tasksDir,        \* the entries under profile.tasksDirPath()
  globs,           \* findTasks' argument: a sequence of patterns
  findPc,          \* a findTasks call: "idle", "called", "resolved", "rejected"
  found,           \* what findTasks resolved with
  findError,       \* the message of the error findTasks rejected with
  counter,         \* per path generator: its counter
  shots,           \* the screenshot calls made so far, in call order
  captures,        \* per screenshot call: where it is and what it has invoked
  profileCall,     \* a `new Profile(...)`: its arguments and its outcome
  configCall,      \* a `new Config(...)`: its argument and its outcome
  files,           \* per directory: the content of its archerfish.json5
  initPc,          \* an initConfig call: "idle", "stat", "write", "resolved", "rejected"
  initCwd,         \* its cwd
  initError,       \* the code of the error it rejected with
  initLogged,      \* what it logged
  filesAtCall,     \* history: `files` when initConfig was called
  baseCall,        \* a generateScreenshotFilePath call: the task file and the base name
  search           \* a loadConfig call: where its search is and how it ended

vars ==
  <<taskFilePaths, maxConcurrency, hooks, runPc, runError, browser, launches, closes,
    hookPc, hookError, required, hookArgs, hookResult, registeredArgs, pending,
    hookCalls, objectCalls, runTasksPc, queue, workers, taskStatus, thrown, starts, invoked, context,
    logged, summaries, commandFailed, unhandled, exited,
    tasksDir, globs, findPc, found, findError, counter, shots, captures,
    profileCall, configCall, files, initPc, initCwd, initError, initLogged, filesAtCall,
    baseCall, search>>

\* A call of findTasks on its own: cli.run's steps below take what findTasks
\* found as given (taskFilePaths) and leave these alone.
findVars == <<tasksDir, globs, findPc, found, findError>>
\* The screenshot functions of the tasks: the steps below do not follow what
\* a task does with its args.
shotVars == <<counter, shots, captures>>
profileVars == <<profileCall, configCall>>
initVars == <<files, initPc, initCwd, initError, initLogged, filesAtCall>>
configVars == <<profileVars, initVars, baseCall, search>>
inputVars == <<taskFilePaths, maxConcurrency, hooks, findVars, shotVars, configVars>>
hookCallVars == <<required, hookArgs, hookResult>>
hookVars ==
  <<hookPc, hookError, hookCallVars, registeredArgs, pending, hookCalls, objectCalls>>
taskVars ==
  <<runTasksPc, queue, workers, taskStatus, thrown, starts, invoked, context, logged,
    summaries>>
exitVars == <<commandFailed, unhandled, exited>>
browserVars == <<browser, launches, closes>>

\* An error value: where it was thrown and what kind of value it is.
Thrown(from, kind) == [from |-> from, kind |-> kind]
NoError == Thrown("none", "none")

\* The state of a run before cli.run is called.
RunInit ==
  /\ \E n \in 0..MaxTasks : taskFilePaths = [i \in 1..n |-> i]
  /\ maxConcurrency \in MaxConcurrencyValues
  /\ hooks \in SUBSET hookKeys
  /\ runPc = "start"
  /\ runError = NoError
  /\ browser = "none"
  /\ launches = 0
  /\ closes = 0
  /\ hookPc = [k \in HookCallKeys |-> "idle"]
  /\ hookError = [k \in HookCallKeys |-> NoError]
  /\ required = {}
  /\ hookArgs = [k \in HookCallKeys |-> {}]
  /\ hookResult = [k \in HookCallKeys |-> "<none>"]
  /\ registeredArgs = EmptyObject
  /\ pending = {}
  /\ hookCalls = EmptyObject
  /\ objectCalls = FALSE
  /\ runTasksPc = "idle"
  /\ queue = <<>>
  /\ workers = <<>>
  /\ taskStatus = [p \in Paths |-> "queued"]
  /\ thrown = [p \in Paths |-> "none"]
  /\ starts = [p \in Paths |-> 0]
  /\ invoked = {}
  /\ context = [p \in Paths |-> EmptyObject]
  /\ logged = {}
  /\ summaries = 0
  /\ commandFailed = NoError
  /\ unhandled = FALSE
  /\ exited = FALSE

\* No call of findTasks on its own.
FindIdle ==
  /\ tasksDir = {}
  /\ globs = <<>>
  /\ findPc = "idle"
  /\ found = <<>>
  /\ findError = ""

\* The tasks that take screenshots: two task executions, each with the
\* screenshot function runTask made for it.
ShotTasks == {1, 2}

\* No screenshot taken.
ShotIdle ==
  /\ counter = [t \in ShotTasks |-> 0]
  /\ shots = <<>>
  /\ captures = <<>>

\* Errors thrown in lib/config.js: the constructor of the error, its message
\* and the profile name inside the message.
ConfigError(type, message, name) == [type |-> type, message |-> message, name |-> name]
NoConfigError == ConfigError("none", "", <<>>)

\* A JavaScript value as a configuration file can give it: what kind of value
\* it is, the primitive value if it is one, and its own enumerable properties
\* (those of a string and of an array are the indices).
Value(kind, prim, props) == [kind |-> kind, prim |-> prim, props |-> props]
UndefinedValue == Value("undefined", "", {})
ObjectValue(props) == Value("object", "", props)

\* A profile's raw data: whether it is an object, its "hooks" and its "data".
ProfileData(isObject, hooksValue, data) ==
  [isObject |-> isObject, hooks |-> hooksValue, data |-> data]

\* A Profile object; NoProfile where a constructor threw.
Profile(name, rootDirPath, hooksValue, data) ==
  [name |-> name, rootDirPath |-> rootDirPath, hooks |-> hooksValue, data |-> data]
NoProfile == Profile(<<>>, "", {}, UndefinedValue)

\* A constructor call: "idle" before it, then "constructed" or "threw".
ProfileCall(pc, name, profileData, error, profile) ==
  [pc |-> pc, name |-> name, profileData |-> profileData, error |-> error,
   profile |-> profile]
ConfigCall(pc, configData, error, profiles) ==
  [pc |-> pc, configData |-> configData, error |-> error, profiles |-> profiles]

\* A raw configuration: whether it is an object, what its "profiles" is
\* ("undefined", "number" or "object"), and the entries of "profiles" in the
\* order of Object.entries.
ConfigData(isObject, profilesKind, entries) ==
  [isObject |-> isObject, profiles |-> profilesKind, entries |-> entries]

\* A generateScreenshotFilePath call: the task file's path relative to the
\* tasks directory and the file name the screenshot base is resolved from.
BaseCall(pc, taskFileName, screenshotFileName) ==
  [pc |-> pc, taskFileName |-> taskFileName, screenshotFileName |-> screenshotFileName]

\* A loadConfig call: "idle", "reading", "resolved" or "rejected"; its cwd;
\* the directory searchConfig looks in; the error it rejected with; and the
\* directory of the file it took.
Search(pc, cwd, dirPath, error, filePath) ==
  [pc |-> pc, cwd |-> cwd, dirPath |-> dirPath, error |-> error, filePath |-> filePath]

\* The directories initConfig and loadConfig are called in: the file system
\* root, a project in it and a directory in the project; and the content of
\* a missing file.
Dirs == {"/", "/project", "/project/child"}
NoFile == "<no file>"

\* No constructor of lib/config.js called, no initConfig called, no
\* configuration file anywhere.
ConfigIdle ==
  /\ profileCall =
       ProfileCall("idle", <<>>, ProfileData(FALSE, Undefined, UndefinedValue),
                   NoConfigError, NoProfile)
  /\ configCall = ConfigCall("idle", ConfigData(FALSE, "undefined", <<>>), NoConfigError, {})
  /\ files = [d \in Dirs |-> NoFile]
  /\ initPc = "idle"
  /\ initCwd = "/project"
  /\ initError = [code |-> "none", syscall |-> "none"]
  /\ initLogged = {}
  /\ filesAtCall = [d \in Dirs |-> NoFile]
  /\ baseCall = BaseCall("idle", <<>>, <<>>)
  /\ search = Search("idle", "/", "/", "none", "none")

Init == RunInit /\ FindIdle /\ ShotIdle /\ ConfigIdle

\* ---------------------------------------------------------------- lib/tasks.js

\* ---- findTasks

\* An entry under the tasks directory: the directories above it, its name
\* (stem and extension), whether the name starts with a dot, and whether it
\* is a directory.
File(dir, stem, ext, hidden) ==
  [dir |-> dir, stem |-> stem, ext |-> ext, hidden |-> hidden, isDir |-> FALSE]
Directory(dir, stem) ==
  [dir |-> dir, stem |-> stem, ext |-> "", hidden |-> FALSE, isDir |-> TRUE]

\* The entries a tasks directory may hold, in the order glob lists them:
\* .eslintrc.js, fixture.json, nyancat.js, pages/, pages/header.js, pages/main.js
Tree ==
  <<File(<<>>, "eslintrc", "js", TRUE),
    File(<<>>, "fixture", "json", FALSE),
    File(<<>>, "nyancat", "js", FALSE),
    Directory(<<>>, "pages"),
    File(<<"pages">>, "header", "js", FALSE),
    File(<<"pages">>, "main", "js", FALSE)>>

Entries == {Tree[i] : i \in DOMAIN Tree}

\* A directory holds an entry only together with the directories above it.
TasksDirs ==
  {d \in SUBSET Entries :
     \A e \in d : e.dir # <<>> => Directory(<<>>, e.dir[1]) \in d}

\* A glob pattern: a literal directory prefix, whether "**" follows it, and
\* the pattern of the last segment ("*" matches any stem, any extension).
Pattern(dir, globstar, stem, ext) ==
  [dir |-> dir, globstar |-> globstar, stem |-> stem, ext |-> ext]

DefaultGlob == Pattern(<<>>, TRUE, "*", "js")          \* "**/*.js"

\* The patterns a caller passes: **/*.js, pages/**/*.js, nyancat.js,
\* mnyancat.js (matches nothing), **/* and fixture.json
Patterns ==
  {DefaultGlob,
   Pattern(<<"pages">>, TRUE, "*", "js"),
   Pattern(<<>>, FALSE, "nyancat", "js"),
   Pattern(<<>>, FALSE, "mnyancat", "js"),
   Pattern(<<>>, TRUE, "*", "*"),
   Pattern(<<>>, FALSE, "fixture", "json")}

RECURSIVE SeqsUpTo(_, _)
SeqsUpTo(S, n) ==
  IF n = 0
    THEN {<<>>}
    ELSE SeqsUpTo(S, n - 1) \cup {Append(q, x) : q \in SeqsUpTo(S, n - 1), x \in S}

GlobInputs == SeqsUpTo(Patterns, MaxGlobs)

IsPrefix(s, t) == Len(s) <= Len(t) /\ SubSeq(t, 1, Len(s)) = s

\* glob(pattern, { cwd, nodir: true, absolute: true }): the entries the
\* pattern matches. A wildcard does not match a name that starts with a dot,
\* and nodir leaves directories out.
Matches(g, e) ==
  /\ IF g.globstar THEN IsPrefix(g.dir, e.dir) ELSE g.dir = e.dir
  /\ g.stem \in {"*", e.stem}
  /\ g.ext \in {"*", e.ext}
  /\ g.stem = "*" => ~e.hidden
  /\ ~e.isDir

Glob(g, dir) == SelectSeq(Tree, LAMBDA e : e \in dir /\ Matches(g, e))

\* A distinct that removes nothing.
DistinctKeepsAll(arr) == arr

\* distinct: arr.filter((elem, i) => arr.indexOf(elem) === i)
Distinct(arr) ==
  LET IndexOf(elem) == CHOOSE i \in 1..Len(arr) :
                         arr[i] = elem /\ \A j \in 1..(i - 1) : arr[j] # elem
      Filter[i \in 0..Len(arr)] ==
        IF i = 0 THEN <<>>
        ELSE IF IndexOf(arr[i]) = i THEN Append(Filter[i - 1], arr[i])
        ELSE Filter[i - 1]
  IN Filter[Len(arr)]

\* globAll: the matches of each glob in turn, concatenated, then distinct.
RECURSIVE AllMatches(_, _)
AllMatches(gs, dir) ==
  IF gs = <<>> THEN <<>> ELSE Glob(Head(gs), dir) \o AllMatches(Tail(gs), dir)

GlobAll(gs, dir) == Distinct(AllMatches(gs, dir))

\* A default that looks at the top of the tasks directory only: "*.js".
CompletedGlobsShallow(gs) ==
  IF Len(gs) = 0 THEN <<Pattern(<<>>, FALSE, "*", "js")>> ELSE gs

\* findTasks: globs.length === 0 ? ["**/*.js"] : globs
CompletedGlobs(gs) == IF Len(gs) = 0 THEN <<DefaultGlob>> ELSE gs

\* A findTasks that resolves with whatever globAll found.
FindTasksUnchecked(gs, dir) ==
  [threw |-> FALSE, message |-> "", paths |-> GlobAll(CompletedGlobs(gs), dir)]

\* findTasks: the outcome of the call.
FindTasks(gs, dir) ==
  LET taskFiles == GlobAll(CompletedGlobs(gs), dir)
  IN IF Len(taskFiles) = 0
       THEN [threw |-> TRUE, message |-> "no tasks found", paths |-> <<>>]
       ELSE [threw |-> FALSE, message |-> "", paths |-> taskFiles]

\* A concurrency that ignores opts.maxConcurrency: one worker per path.
ConcurrencyPerPath(paths, mc) == Len(paths)

\* A concurrency that falls back to 1 for a missing, NaN, fractional or zero
\* maxConcurrency only, and takes any other integer as it is.
ConcurrencyOrOne(paths, mc) ==
  Min(Len(paths), IF mc.kind = "int" /\ mc.val # 0 THEN mc.val ELSE 1)

\* runTasks: Math.min(taskFilePaths.length,
\*   Number.isInteger(maxConcurrency) && maxConcurrency > 0 ? maxConcurrency : 1)
Concurrency(paths, mc) ==
  Min(Len(paths), IF mc.kind = "int" /\ mc.val > 0 THEN mc.val ELSE 1)

\* A pop that takes the last element but drops the first one.
PopDropsHead(q) == [item |-> q[Len(q)], rest |-> Tail(q)]

\* queue.pop(): the last element, and the queue without it.
Pop(q) == [item |-> q[Len(q)], rest |-> SubSeq(q, 1, Len(q) - 1)]

\* register(name, value): Object.defineProperty(registeredArgs, name, { value, ... })
Register(obj, name, value) == [obj EXCEPT ![ToPropertyKey(name)] = value]

\* An assign in which the properties the target already has win.
ObjectAssignKeepsTarget(target, source) ==
  [k \in AllKeys |-> IF target[k] # Absent THEN target[k] ELSE source[k]]

\* Object.assign(target, source): the own properties of source win.
ObjectAssign(target, source) ==
  [k \in AllKeys |-> IF source[k] # Absent THEN source[k] ELSE target[k]]

\* runTask: the fixed fields of a task's args.
FixedArgs == [k \in AllKeys |-> IF k \in FixedKeys THEN "<fixed>" ELSE Absent]

\* runTask: the args the task function is called with.
TaskArgs(regs) == ObjectAssign(FixedArgs, regs)

\* runTask's catch block: err && err.stack ? log err.stack : log `${err}`.
\* TRUE when the line is logged, FALSE when building it throws a TypeError
\* (a Symbol, or an object without toString, cannot be converted to a string).
CatchLogs(kind) == kind # "symbol"

\* startWorker up to its first await: the loop test, the pop and the call of
\* runTask; a worker that finds the queue empty has finished.
StartWorker(q) ==
  IF Len(q) > 0
    THEN [queue |-> Pop(q).rest, worker |-> [pc |-> "awaiting", task |-> Pop(q).item]]
    ELSE [queue |-> q, worker |-> [pc |-> "done", task |-> 0]]

\* runTasks: for (i = 0; i < concurrency; i++) workers.push(startWorker(queue, ...))
RECURSIVE StartWorkers(_, _, _)
StartWorkers(c, q, ws) ==
  IF Len(ws) >= c
    THEN [queue |-> q, workers |-> ws]
    ELSE StartWorkers(c, StartWorker(q).queue, Append(ws, StartWorker(q).worker))

Awaited(ws) == {ws[i].task : i \in {j \in DOMAIN ws : ws[j].pc = "awaiting"}}

\* The synchronous part of runTask for the paths just taken from the queue:
\* require(taskFilePath) throws for those in `broken`, the others are called
\* with args built from registeredArgs as it is now. `logs` are the paths whose
\* error the catch block has just logged (err goes out of scope).
RunTaskBegin(taken, broken, logs) ==
  /\ starts' = [p \in Paths |-> IF p \in taken THEN starts[p] + 1 ELSE starts[p]]
  /\ invoked' = invoked \cup (taken \ broken)
  /\ context' =
       [p \in Paths |-> IF p \in taken \ broken THEN TaskArgs(registeredArgs) ELSE context[p]]
  /\ taskStatus' =
       [p \in Paths |->
          IF p \in broken THEN "failed" ELSE IF p \in taken THEN "running" ELSE taskStatus[p]]
  /\ thrown' =
       [p \in Paths |->
          IF p \in broken THEN "Error" ELSE IF p \in logs THEN "none" ELSE thrown[p]]

Alive == ~exited

\* cli.run after runHook(beforeAll) resolved: runTasks runs up to its
\* await Promise.all(workers).
RunTasksCall ==
  /\ Alive
  /\ runPc = "beforeAll"
  /\ hookPc["beforeAll"] \in {"skipped", "done"}
  /\ LET started == StartWorkers(Concurrency(taskFilePaths, maxConcurrency), taskFilePaths, <<>>)
     IN /\ queue' = started.queue
        /\ workers' = started.workers
        /\ \E broken \in SUBSET Awaited(started.workers) :
             RunTaskBegin(Awaited(started.workers), broken, {})
  /\ runPc' = "tasks"
  /\ runTasksPc' = "awaiting"
  /\ UNCHANGED <<inputVars, runError, browserVars, hookVars, logged, summaries, exitVars>>

\* A running task function returns or resolves.
TaskResolves(p) ==
  /\ Alive
  /\ taskStatus[p] = "running"
  /\ taskStatus' = [taskStatus EXCEPT ![p] = "ok"]
  /\ UNCHANGED <<inputVars, runPc, runError, browserVars, hookVars, runTasksPc, queue,
                 workers, thrown, starts, invoked, context, logged, summaries, exitVars>>

\* A running task function throws or rejects.
TaskThrows(p, kind) ==
  /\ Alive
  /\ taskStatus[p] = "running"
  /\ taskStatus' = [taskStatus EXCEPT ![p] = "failed"]
  /\ thrown' = [thrown EXCEPT ![p] = kind]
  /\ UNCHANGED <<inputVars, runPc, runError, browserVars, hookVars, runTasksPc, queue,
                 workers, starts, invoked, context, logged, summaries, exitVars>>

\* The worker's await runTask(...) returns: the catch block has logged a
\* failure, and the loop takes the next path or ends. When the catch block
\* itself throws, runTask rejects and so does the worker.
WorkerResumes(w) ==
  /\ Alive
  /\ w \in DOMAIN workers
  /\ workers[w].pc = "awaiting"
  /\ taskStatus[workers[w].task] \in {"ok", "failed"}
  /\ LET p == workers[w].task
         failed == taskStatus[p] = "failed"
     IN IF failed /\ ~CatchLogs(thrown[p])
          THEN /\ workers' = [workers EXCEPT ![w] = [pc |-> "rejected", task |-> p]]
               /\ UNCHANGED <<queue, taskStatus, thrown, starts, invoked, context, logged>>
          ELSE /\ logged' = IF failed THEN logged \cup {p} ELSE logged
               /\ queue' = StartWorker(queue).queue
               /\ workers' = [workers EXCEPT ![w] = StartWorker(queue).worker]
               /\ LET taken == Awaited(<<StartWorker(queue).worker>>)
                  IN \E broken \in SUBSET taken :
                       RunTaskBegin(taken, broken, IF failed THEN {p} ELSE {})
  /\ UNCHANGED <<inputVars, runPc, runError, browserVars, hookVars, runTasksPc, summaries,
                 exitVars>>

\* Promise.all(workers) resolves: runTasks logs "All tasks finished!" and resolves.
RunTasksResolves ==
  /\ Alive
  /\ runTasksPc = "awaiting"
  /\ \A w \in DOMAIN workers : workers[w].pc = "done"
  /\ summaries' = summaries + 1
  /\ runTasksPc' = "resolved"
  /\ UNCHANGED <<inputVars, runPc, runError, browserVars, hookVars, queue, workers,
                 taskStatus, thrown, starts, invoked, context, logged, exitVars>>

\* Promise.all(workers) rejects with the first rejection: runTasks rejects, and
\* cli.run, which awaits it without a try, rejects with the same error.
RunTasksRejects ==
  /\ Alive
  /\ runTasksPc = "awaiting"
  /\ \E w \in DOMAIN workers : workers[w].pc = "rejected"
  /\ runTasksPc' = "rejected"
  /\ runPc' = "rejected"
  /\ runError' = Thrown("runTask", "Error")
  /\ UNCHANGED <<inputVars, browserVars, hookVars, queue, workers, taskStatus, thrown,
                 starts, invoked, context, logged, summaries, exitVars>>

\* A run that enables registration for every hook.
EnableAlways(key) == TRUE

\* cli.run passes enableArgRegistration = true for beforeAll, false for afterAll.
EnableArgRegistration(key) == key = "beforeAll"

\* runHook: the args the hook function is called with.
HookArgs(enableArgRegistration) ==
  {"profile", "browser", "getLogger", "sleep"}
    \cup (IF enableArgRegistration THEN {"register"} ELSE {})

\* runHook up to its await hook(args). An unknown key throws; when the
\* profile has no hook path for the key nothing is done and runHook returns;
\* otherwise the path is resolved, the module is required (either may throw)
\* and the hook function is called.
RunHookBegin(key, enableArgRegistration) ==
  IF Lookup(hookKeys, key) = Undefined
    THEN /\ hookPc' = [hookPc EXCEPT ![key] = "failed"]
         /\ hookError' = [hookError EXCEPT ![key] = Thrown("unknown hook key", "Error")]
         /\ UNCHANGED hookCallVars
  ELSE IF Lookup(hooks, key) = Undefined
    THEN /\ hookPc' = [hookPc EXCEPT ![key] = "skipped"]
         /\ hookResult' =
              [hookResult EXCEPT
                 ![key] = IF enableArgRegistration THEN "<registeredArgs>" ELSE Undefined]
         /\ UNCHANGED <<hookError, required, hookArgs>>
  ELSE IF Lookup(hooks, key) = "<inherited>"
    THEN /\ hookPc' = [hookPc EXCEPT ![key] = "failed"]
         /\ hookError' = [hookError EXCEPT ![key] = Thrown("path.resolve", "TypeError")]
         /\ UNCHANGED hookCallVars
  ELSE /\ required' = required \cup {key}
       /\ UNCHANGED hookResult
       /\ \E loads \in BOOLEAN :
            IF loads
              THEN /\ hookPc' = [hookPc EXCEPT ![key] = "running"]
                   /\ hookArgs' = [hookArgs EXCEPT ![key] = HookArgs(enableArgRegistration)]
                   /\ UNCHANGED hookError
              ELSE /\ hookPc' = [hookPc EXCEPT ![key] = "failed"]
                   /\ hookError' = [hookError EXCEPT ![key] = Thrown(key, "Error")]
                   /\ UNCHANGED hookArgs

\* What a register call does, whenever it runs.
RegisterRuns(call) ==
  /\ registeredArgs' = Register(registeredArgs, call.name, call.value)
  /\ IF hookPc["beforeAll"] = "running"
       THEN /\ hookCalls' =
                 IF call.name.kind = "string"
                   THEN [hookCalls EXCEPT ![call.name.key] = call.value]
                   ELSE hookCalls
            /\ objectCalls' = (objectCalls \/ call.name.kind = "object")
       ELSE UNCHANGED <<hookCalls, objectCalls>>

\* The running hook calls register(...).
HookRegisters(key, call) ==
  /\ Alive
  /\ hookPc[key] = "running"
  /\ "register" \in hookArgs[key]
  /\ RegisterRuns(call)
  /\ UNCHANGED <<inputVars, runPc, runError, browserVars, hookPc, hookError, hookCallVars,
                 pending, taskVars, exitVars>>

\* The running hook leaves a register call in a callback (a timer, a promise
\* reaction) that it does not wait for.
HookDefers(key, call) ==
  /\ Alive
  /\ hookPc[key] = "running"
  /\ "register" \in hookArgs[key]
  /\ call \notin pending
  /\ pending' = pending \cup {call}
  /\ UNCHANGED <<inputVars, runPc, runError, browserVars, hookPc, hookError, hookCallVars,
                 registeredArgs, hookCalls, objectCalls, taskVars, exitVars>>

\* A callback the hook left behind runs its register call.
DeferredRegister(call) ==
  /\ Alive
  /\ call \in pending
  /\ pending' = pending \ {call}
  /\ RegisterRuns(call)
  /\ UNCHANGED <<inputVars, runPc, runError, browserVars, hookPc, hookError, hookCallVars,
                 taskVars, exitVars>>

\* The hook function returns or resolves: runHook resolves with
\* enableArgRegistration ? registeredArgs : undefined.
HookResolves(key) ==
  /\ Alive
  /\ hookPc[key] = "running"
  /\ hookPc' = [hookPc EXCEPT ![key] = "done"]
  /\ hookResult' =
       [hookResult EXCEPT
          ![key] = IF "register" \in hookArgs[key] THEN "<registeredArgs>" ELSE Undefined]
  /\ UNCHANGED <<inputVars, runPc, runError, browserVars, hookError, required, hookArgs,
                 registeredArgs, pending, hookCalls, objectCalls, taskVars, exitVars>>

\* The hook function throws or rejects: runHook, which has no try, rejects
\* with what the hook threw.
HookThrows(key, kind) ==
  /\ Alive
  /\ hookPc[key] = "running"
  /\ hookPc' = [hookPc EXCEPT ![key] = "failed"]
  /\ hookError' = [hookError EXCEPT ![key] = Thrown(key, kind)]
  /\ UNCHANGED <<inputVars, runPc, runError, browserVars, hookCallVars, registeredArgs,
                 pending, hookCalls, objectCalls, taskVars, exitVars>>

\* ---------------------------------------------------------------- lib/cli.js

\* run: Profile.assertNameValid(profileName), then loadConfig(cwd) is called.
RunStart ==
  /\ Alive
  /\ runPc = "start"
  /\ \E valid \in BOOLEAN :
       IF valid
         THEN runPc' = "loadConfig" /\ UNCHANGED runError
         ELSE runPc' = "rejected" /\ runError' = Thrown("assertNameValid", "Error")
  /\ UNCHANGED <<inputVars, browserVars, hookVars, taskVars, exitVars>>

\* run: loadConfig settles; config.getProfile(profileName); findTasks is called.
LoadConfigSettles ==
  /\ Alive
  /\ runPc = "loadConfig"
  /\ \E outcome \in {"loaded", "loadConfig", "getProfile"} :
       IF outcome = "loaded"
         THEN runPc' = "findTasks" /\ UNCHANGED runError
         ELSE runPc' = "rejected" /\ runError' = Thrown(outcome, "Error")
  /\ UNCHANGED <<inputVars, browserVars, hookVars, taskVars, exitVars>>

\* A run that launches the browser while findTasks is still to be checked:
\* puppeteer.launch() is called whatever findTasks found.
FindTasksSettlesAfterLaunch ==
  /\ Alive
  /\ runPc = "findTasks"
  /\ launches' = launches + 1
  /\ IF Len(taskFilePaths) = 0
       THEN runPc' = "rejected" /\ runError' = Thrown("findTasks", "Error")
       ELSE runPc' = "launch" /\ UNCHANGED runError
  /\ UNCHANGED <<inputVars, browser, closes, hookVars, taskVars, exitVars>>

\* run: findTasks settles (it throws "no tasks found" for an empty result);
\* puppeteer.launch() is called.
FindTasksSettles ==
  /\ Alive
  /\ runPc = "findTasks"
  /\ IF Len(taskFilePaths) = 0
       THEN runPc' = "rejected" /\ runError' = Thrown("findTasks", "Error")
                                /\ UNCHANGED launches
       ELSE runPc' = "launch" /\ launches' = launches + 1 /\ UNCHANGED runError
  /\ UNCHANGED <<inputVars, browser, closes, hookVars, taskVars, exitVars>>

\* run: puppeteer.launch() settles; runHook(profile, browser, beforeAll, true).
LaunchSettles ==
  /\ Alive
  /\ runPc = "launch"
  /\ \E launched \in BOOLEAN :
       IF launched
         THEN /\ browser' = "open"
              /\ runPc' = "beforeAll"
              /\ RunHookBegin("beforeAll", EnableArgRegistration("beforeAll"))
              /\ UNCHANGED runError
         ELSE /\ runPc' = "rejected"
              /\ runError' = Thrown("launch", "Error")
              /\ UNCHANGED <<browser, hookPc, hookError, hookCallVars>>
  /\ UNCHANGED <<inputVars, launches, closes, registeredArgs, pending, hookCalls,
                 objectCalls, taskVars, exitVars>>

\* A run that treats a hook failure the way runTask treats a task failure:
\* catch it and carry on.
RunHookSwallows(key) ==
  /\ Alive
  /\ runPc = key
  /\ hookPc[key] = "failed"
  /\ hookPc' = [hookPc EXCEPT ![key] = "done"]
  /\ UNCHANGED <<inputVars, runPc, runError, browserVars, hookError, hookCallVars,
                 registeredArgs, pending, hookCalls, objectCalls, taskVars, exitVars>>

\* run: an awaited runHook rejected; run has no try, so it rejects with the
\* same error and nothing after the await runs.
RunHookRejects(key) ==
  /\ Alive
  /\ runPc = key
  /\ hookPc[key] = "failed"
  /\ runPc' = "rejected"
  /\ runError' = hookError[key]
  /\ UNCHANGED <<inputVars, browserVars, hookVars, taskVars, exitVars>>

\* run: runTasks resolved; runHook(profile, browser, afterAll, false).
AfterAllCall ==
  /\ Alive
  /\ runPc = "tasks"
  /\ runTasksPc = "resolved"
  /\ runPc' = "afterAll"
  /\ RunHookBegin("afterAll", EnableArgRegistration("afterAll"))
  /\ UNCHANGED <<inputVars, runError, browserVars, registeredArgs, pending, hookCalls,
                 objectCalls, taskVars, exitVars>>

\* run: runHook(afterAll) resolved; browser.close() is called.
CloseCall ==
  /\ Alive
  /\ runPc = "afterAll"
  /\ hookPc["afterAll"] \in {"skipped", "done"}
  /\ runPc' = "closing"
  /\ closes' = closes + 1
  /\ UNCHANGED <<inputVars, runError, browser, launches, hookVars, taskVars, exitVars>>

\* run: browser.close() settles; run returns the browser.
CloseSettles ==
  /\ Alive
  /\ runPc = "closing"
  /\ \E closed \in BOOLEAN :
       IF closed
         THEN browser' = "closed" /\ runPc' = "resolved" /\ UNCHANGED runError
         ELSE runPc' = "rejected" /\ runError' = Thrown("close", "Error")
                                  /\ UNCHANGED browser
  /\ UNCHANGED <<inputVars, launches, closes, hookVars, taskVars, exitVars>>

\* ---------------------------------------------------------------- bin/archerfish.js

\* cli.run(...).catch(handleUncaughtError): logs "Command failed" and calls
\* process.exit(1); `${err}` throws for a value that has no string form, and
\* then process.exit is not reached.
HandleUncaughtError ==
  /\ Alive
  /\ runPc = "rejected"
  /\ commandFailed = NoError
  /\ ~unhandled
  /\ IF runError.kind = "symbol"
       THEN unhandled' = TRUE /\ UNCHANGED <<commandFailed, exited>>
       ELSE commandFailed' = runError /\ exited' = TRUE /\ UNCHANGED unhandled
  /\ UNCHANGED <<inputVars, runPc, runError, browserVars, hookVars, taskVars>>

Next ==
  \/ RunStart
  \/ LoadConfigSettles
  \/ FindTasksSettles
  \/ LaunchSettles
  \/ \E key \in hookKeys, call \in RegisterCalls : HookRegisters(key, call)
  \/ \E key \in hookKeys, call \in DeferredCalls : HookDefers(key, call)
  \/ \E call \in DeferredCalls : DeferredRegister(call)
  \/ \E key \in hookKeys : HookResolves(key)
  \/ \E key \in hookKeys, kind \in ThrownKinds : HookThrows(key, kind)
  \/ \E key \in hookKeys : RunHookRejects(key)
  \/ RunTasksCall
  \/ \E p \in Paths : TaskResolves(p)
  \/ \E p \in Paths, kind \in ThrownKinds : TaskThrows(p, kind)
  \/ \E w \in 1..MaxTasks : WorkerResumes(w)
  \/ RunTasksResolves
  \/ RunTasksRejects
  \/ AfterAllCall
  \/ CloseCall
  \/ CloseSettles
  \/ HandleUncaughtError

Spec == Init /\ [][Next]_vars

\* ---------------------------------------------------------------- findTasks on its own

\* The state of the run's variables while something else than cli.run is
\* looked at: cli.run is not called.
RunNotCalled ==
  /\ RunInit
  /\ taskFilePaths = <<>>
  /\ maxConcurrency = [kind |-> "undefined", val |-> 0]
  /\ hooks = {}

runVars ==
  <<taskFilePaths, maxConcurrency, hooks, runPc, runError, browserVars, hookVars,
    taskVars, exitVars>>

\* findTasks(profile, globs) has been called on a tasks directory.
FindInit ==
  /\ RunNotCalled
  /\ tasksDir \in TasksDirs
  /\ globs \in GlobInputs
  /\ findPc = "called"
  /\ found = <<>>
  /\ findError = ""
  /\ ShotIdle
  /\ ConfigIdle

\* findTasks resolves with the task files.
FindTasksResolves ==
  /\ findPc = "called"
  /\ ~FindTasks(globs, tasksDir).threw
  /\ findPc' = "resolved"
  /\ found' = FindTasks(globs, tasksDir).paths
  /\ UNCHANGED <<runVars, shotVars, configVars, tasksDir, globs, findError>>

\* findTasks rejects.
FindTasksRejects ==
  /\ findPc = "called"
  /\ FindTasks(globs, tasksDir).threw
  /\ findPc' = "rejected"
  /\ findError' = FindTasks(globs, tasksDir).message
  /\ UNCHANGED <<runVars, shotVars, configVars, tasksDir, globs, found>>

FindNext == FindTasksResolves \/ FindTasksRejects

FindSpec == FindInit /\ [][FindNext]_vars

\* ---------------------------------------------------------------- runHook on its own

\* A profile with any of the two hook paths; runHook is about to be called.
HookInit ==
  /\ RunInit
  /\ taskFilePaths = <<>>
  /\ maxConcurrency = [kind |-> "undefined", val |-> 0]
  /\ FindIdle
  /\ ShotIdle
  /\ ConfigIdle

\* runHook(profile, browser, key, enableArgRegistration) is called.
RunHookCall(key, enableArgRegistration) ==
  /\ \A k \in HookCallKeys : hookPc[k] = "idle"
  /\ RunHookBegin(key, enableArgRegistration)
  /\ UNCHANGED <<inputVars, runPc, runError, browserVars, registeredArgs, pending,
                 hookCalls, objectCalls, taskVars, exitVars>>

HookNext ==
  \/ \E key \in HookCallKeys, enable \in BOOLEAN : RunHookCall(key, enable)
  \/ \E key \in hookKeys, call \in RegisterCalls : HookRegisters(key, call)
  \/ \E key \in hookKeys, call \in DeferredCalls : HookDefers(key, call)
  \/ \E call \in DeferredCalls : DeferredRegister(call)
  \/ \E key \in hookKeys : HookResolves(key)
  \/ \E key \in hookKeys, kind \in ThrownKinds : HookThrows(key, kind)

HookSpec == HookInit /\ [][HookNext]_vars

\* ---------------------------------------------------------------- a hook that registers fixed names

\* The calls of a beforeAll hook that registers under the names of fields
\* runTask sets itself: register("screenshot", "42"), register("profile", "42").
OverrideCalls ==
  {[name |-> StringName("screenshot"), value |-> "42"],
   [name |-> StringName("profile"), value |-> "42"]}

\* A run of one task with a beforeAll hook.
OverrideInit ==
  /\ Init
  /\ Len(taskFilePaths) = 1
  /\ maxConcurrency = [kind |-> "undefined", val |-> 0]
  /\ hooks = {"beforeAll"}

OverrideNext ==
  \/ Next
  \/ \E call \in OverrideCalls : HookRegisters("beforeAll", call)

OverrideSpec == OverrideInit /\ [][OverrideNext]_vars

\* ---------------------------------------------------------------- runs that go on

\* The steps that settle something awaited or carry cli.run on; the register
\* calls of a running hook are not among them.
Settles ==
  \/ RunStart
  \/ LoadConfigSettles
  \/ FindTasksSettles
  \/ LaunchSettles
  \/ \E key \in hookKeys : HookResolves(key)
  \/ \E key \in hookKeys, kind \in ThrownKinds : HookThrows(key, kind)
  \/ \E key \in hookKeys : RunHookRejects(key)
  \/ RunTasksCall
  \/ \E p \in Paths : TaskResolves(p)
  \/ \E p \in Paths, kind \in ThrownKinds : TaskThrows(p, kind)
  \/ \E w \in 1..MaxTasks : WorkerResumes(w)
  \/ RunTasksResolves
  \/ RunTasksRejects
  \/ AfterAllCall
  \/ CloseCall
  \/ CloseSettles
  \/ HandleUncaughtError

\* A run in which every hook and every task settles and every continuation
\* runs.
FairSpec == Init /\ [][Next]_vars /\ WF_vars(Settles)

\* The second task of a run, when there is one, is a task whose function
\* returns a promise that never settles (and whose module loads).
Hung == 2
Hangs == taskStatus'[Hung] \notin {"ok", "failed"}
HangNext == Next /\ Hangs

\* A run in which everything but that task settles.
HangSpec == Init /\ [][HangNext]_vars /\ WF_vars(Settles /\ Hangs)

\* ---------------------------------------------------------------- lib/screenshot.js

\* extByType
ExtByType == [png |-> ".png", jpeg |-> ".jpg"]

\* opts.type as a task passes it: absent, "png", "jpeg" or a string that is
\* no image type.
OptsTypes == {Undefined, "png", "jpeg", "nyancat"}

\* An opts.type that is no string: the number 42.
Number42 == "<42>"

\* The name a task passes: absent, or a string.
ShotNames == {Undefined, "nyancat", "hello/world/!"}

\* String(name).replace(/[^0-9A-Za-z_-]/g, "")
Sanitize(name) == IF name = "hello/world/!" THEN "helloworld" ELSE name

\* counter.toString()
CounterToString(n) == <<"0", "1", "2", "3", "4", "5", "6", "7", "8", "9">>[n + 1]

\* A file path: the base of the task's screenshots, "-" and a text or
\* nothing, and the extension.
FilePath(base, dash, text, ext) == [base |-> base, dash |-> dash, text |-> text, ext |-> ext]
NoPath == FilePath(0, FALSE, "", "")

\* A path function that numbers every unnamed call, the first one included.
GenFilePathNoFirst(base, c, type, name) ==
  IF type \notin DOMAIN ExtByType
    THEN [threw |-> TRUE, path |-> NoPath, counter |-> c]
  ELSE IF name = Undefined
    THEN [threw |-> FALSE,
          path |-> FilePath(base, TRUE, CounterToString(c), ExtByType[type]),
          counter |-> c + 1]
  ELSE [threw |-> FALSE,
        path |-> FilePath(base, TRUE, Sanitize(name), ExtByType[type]),
        counter |-> c]

\* A path function whose named calls advance the counter too.
GenFilePathNamedCounts(base, c, type, name) ==
  IF type \notin DOMAIN ExtByType
    THEN [threw |-> TRUE, path |-> NoPath, counter |-> c]
  ELSE IF name = Undefined
    THEN [threw |-> FALSE,
          path |-> FilePath(base, c # 0, IF c = 0 THEN "" ELSE CounterToString(c), ExtByType[type]),
          counter |-> c + 1]
  ELSE [threw |-> FALSE,
        path |-> FilePath(base, TRUE, Sanitize(name), ExtByType[type]),
        counter |-> c + 1]

\* A path function whose unnamed calls count even when the type is unknown.
GenFilePathCountsUnknown(base, c, type, name) ==
  IF type \notin DOMAIN ExtByType
    THEN [threw |-> TRUE, path |-> NoPath, counter |-> IF name = Undefined THEN c + 1 ELSE c]
  ELSE IF name = Undefined
    THEN [threw |-> FALSE,
          path |-> FilePath(base, c # 0, IF c = 0 THEN "" ELSE CounterToString(c), ExtByType[type]),
          counter |-> c + 1]
  ELSE [threw |-> FALSE,
        path |-> FilePath(base, TRUE, Sanitize(name), ExtByType[type]),
        counter |-> c]

\* A path function that reads the counter and leaves it as it is.
GenFilePathKeepsCounter(base, c, type, name) ==
  IF type \notin DOMAIN ExtByType
    THEN [threw |-> TRUE, path |-> NoPath, counter |-> c]
  ELSE IF name = Undefined
    THEN [threw |-> FALSE,
          path |-> FilePath(base, c # 0, IF c = 0 THEN "" ELSE CounterToString(c), ExtByType[type]),
          counter |-> c]
  ELSE [threw |-> FALSE,
        path |-> FilePath(base, TRUE, Sanitize(name), ExtByType[type]),
        counter |-> c]

\* The function generateScreenshotFilePath returns, called with (type, name)
\* when its counter is c: whether it throws, the path and the counter after.
GenFilePath(base, c, type, name) ==
  IF type \notin DOMAIN ExtByType
    THEN [threw |-> TRUE, path |-> NoPath, counter |-> c]
  ELSE IF name = Undefined
    THEN [threw |-> FALSE,
          path |-> FilePath(base, c # 0, IF c = 0 THEN "" ELSE CounterToString(c), ExtByType[type]),
          counter |-> c + 1]
  ELSE [threw |-> FALSE,
        path |-> FilePath(base, TRUE, Sanitize(name), ExtByType[type]),
        counter |-> c]

\* A type that falls back to "png" for every opts.type that is no image type.
TypeOfRecognized(optsType) == IF optsType \in DOMAIN ExtByType THEN optsType ELSE "png"

\* A type that is opts.type as it is.
TypeOfAsGiven(optsType) == optsType

\* generateScreenshotFun: typeof opts.type === "string" ? opts.type : "png"
TypeOf(optsType) == IF optsType \notin {Undefined, Number42} THEN optsType ELSE "png"

\* Where a screenshot call is after its synchronous part: it has thrown
\* "unknown type", or it has called mkdirpAsync(path.dirname(filePath)) and
\* awaits it. `mkdirp` tells how the call to mkdirpAsync went ("none" when not
\* called), `capture` the type passed to target.screenshot (NoCapture when not
\* called).
NoCapture == "<none>"
Capture(pc, error, mkdirp, capture) ==
  [pc |-> pc, error |-> error, mkdirp |-> mkdirp, capture |-> capture]

\* One counter for all path generators.
CounterShared(t) == 1

\* generateScreenshotFilePath: `let counter = 0` belongs to the generator
\* made for the task.
CounterOf(t) == t

\* No task has taken a screenshot.
ShotInit ==
  /\ RunNotCalled
  /\ FindIdle
  /\ ShotIdle
  /\ ConfigIdle

\* Task t calls screenshot(target, name, { type: optsType }): the function
\* runs up to its first await, having chosen the file path.
ScreenshotCall(t, optsType, name) ==
  /\ Len(shots) < MaxShots
  /\ LET generated == GenFilePath(t, counter[CounterOf(t)], TypeOf(optsType), name)
     IN /\ counter' = [counter EXCEPT ![CounterOf(t)] = generated.counter]
        /\ shots' = Append(shots, [task |-> t, optsType |-> optsType, name |-> name,
                                   threw |-> generated.threw, path |-> generated.path])
        /\ captures' =
             Append(captures,
                    IF generated.threw
                      THEN Capture("rejected", "unknown type", "none", NoCapture)
                      ELSE Capture("mkdirp", "none", "called", NoCapture))
  /\ UNCHANGED <<runVars, findVars, configVars>>

ShotNext ==
  \E t \in ShotTasks, optsType \in OptsTypes, name \in ShotNames :
    ScreenshotCall(t, optsType, name)

ShotSpec == ShotInit /\ [][ShotNext]_vars

\* Names a task may pass as well: "1", and "helloworld", which is what
\* "hello/world/!" becomes.
MoreNames == {"1", "helloworld"}

\* One task that takes screenshots under any of the names.
NamesNext ==
  \E optsType \in OptsTypes, name \in ShotNames \cup MoreNames :
    ScreenshotCall(1, optsType, name)

NamesSpec == ShotInit /\ [][NamesNext]_vars

\* A screenshot call that goes on to the capture when mkdirp failed.
MkdirpSettlesIgnoresFailure(i, ok) ==
  /\ captures[i].pc = "mkdirp"
  /\ captures' =
       [captures EXCEPT
          ![i] = Capture("capture", "none", IF ok THEN "ok" ELSE "failed",
                         TypeOf(shots[i].optsType))]
  /\ UNCHANGED <<runVars, findVars, configVars, counter, shots>>

\* await mkdirpAsync(...) settles: when it resolved, target.screenshot is
\* called with { ...opts, type, path }; when it rejected, so does the call.
MkdirpSettles(i, ok) ==
  /\ captures[i].pc = "mkdirp"
  /\ captures' =
       [captures EXCEPT
          ![i] = IF ok
                   THEN Capture("capture", "none", "ok", TypeOf(shots[i].optsType))
                   ELSE Capture("rejected", "mkdirp", "failed", NoCapture)]
  /\ UNCHANGED <<runVars, findVars, configVars, counter, shots>>

\* await target.screenshot(...) settles, and the call with it.
CaptureSettles(i, ok) ==
  /\ captures[i].pc = "capture"
  /\ captures' =
       [captures EXCEPT
          ![i] = IF ok
                   THEN [@ EXCEPT !.pc = "resolved"]
                   ELSE [@ EXCEPT !.pc = "rejected", !.error = "capture"]]
  /\ UNCHANGED <<runVars, findVars, configVars, counter, shots>>

\* One task whose screenshot calls run to their end; opts.type may be a
\* number as well.
CaptureNext ==
  \/ \E optsType \in OptsTypes \cup {Number42}, name \in {Undefined, "nyancat"} :
       Len(shots) < MaxCaptures /\ ScreenshotCall(1, optsType, name)
  \/ \E i \in DOMAIN captures, ok \in BOOLEAN : MkdirpSettles(i, ok)
  \/ \E i \in DOMAIN captures, ok \in BOOLEAN : CaptureSettles(i, ok)

CaptureSpec == ShotInit /\ [][CaptureNext]_vars

\* The characters of task file names, and the task files' paths relative to
\* the tasks directory.
FileNameChars == {"t", ".", "m", "j", "s"}
TaskFileNames == SeqsUpTo(FileNameChars, MaxFileNameLen) \ {<<>>}

\* taskFileName.replace(/.js$/, ""): the dot of the pattern stands for any
\* character but a line terminator.
ReplaceJs(taskFileName) ==
  LET n == Len(taskFileName)
  IN  IF /\ n >= 3
         /\ taskFileName[n - 2] # "\n"
         /\ taskFileName[n - 1] = "j"
         /\ taskFileName[n] = "s"
        THEN SubSeq(taskFileName, 1, n - 3)
        ELSE taskFileName

\* generateScreenshotFilePath(profile, taskFilePath) is called for a task file
\* whose path relative to profile.tasksDirPath() is taskFileName.
GenerateScreenshotFilePath(taskFileName) ==
  /\ baseCall.pc = "idle"
  /\ baseCall' = BaseCall("called", taskFileName, ReplaceJs(taskFileName))
  /\ UNCHANGED <<runVars, findVars, shotVars, profileVars, initVars, search>>

BaseNext ==
  /\ baseCall.pc = "idle"
  /\ \E taskFileName \in TaskFileNames : GenerateScreenshotFilePath(taskFileName)

BaseSpec == ShotInit /\ [][BaseNext]_vars

\* ---------------------------------------------------------------- lib/config.js

\* The characters of profile names: a letter and a digit of [A-Za-z0-9], the
\* underscore, and a character of neither kind. A name is a sequence of them.
Alnum == {"a", "0"}
Chars == Alnum \cup {"_", "-"}
Names == SeqsUpTo(Chars, MaxNameLen)

\* A test that takes any non-empty name of letters, digits and underscores.
RegexTestAnyUnderscores(name) ==
  name # <<>> /\ \A i \in 1..Len(name) : name[i] \in Alnum \cup {"_"}

\* /^[A-Za-z0-9]+(_[A-Za-z0-9]+)?$/.test(name): k is where the first group of
\* letters and digits ends.
RegexTest(name) ==
  \E k \in 1..Len(name) :
    /\ \A i \in 1..k : name[i] \in Alnum
    /\ \/ k = Len(name)
       \/ /\ k + 1 < Len(name)
          /\ name[k + 1] = "_"
          /\ \A i \in (k + 2)..Len(name) : name[i] \in Alnum

\* The data payloads of the README's "data": nothing, an object, an array, a
\* number and a string.
DataValues ==
  { UndefinedValue,
    ObjectValue({<<"nyan", "cat">>, <<"answer", "42">>}),
    Value("array", "", {<<"0", "x">>}),
    Value("number", "42", {}),
    Value("string", "hi", {<<"0", "h">>, <<"1", "i">>}) }

\* Object.assign({}, source): a new plain object with the own enumerable
\* properties of the source; undefined is skipped, a primitive is wrapped.
ObjectAssignToEmpty(source) == ObjectValue(source.props)

\* The raw profile data: null, an object whose "hooks" is a number, and
\* objects without hooks carrying each payload.
ProfileDatas ==
  {ProfileData(FALSE, Undefined, UndefinedValue), ProfileData(TRUE, "42", UndefinedValue)}
    \cup {ProfileData(TRUE, Undefined, data) : data \in DataValues}

Root == "/path/to/project"

\* new Profile(name, rootDirPath, profileData)
ConstructProfile(name, rootDirPath, profileData) ==
  IF ~RegexTest(name)
    THEN ProfileCall("threw", name, profileData,
                     ConfigError("Error", "invalid profile name", name), NoProfile)
  ELSE IF ~profileData.isObject
    THEN ProfileCall("threw", name, profileData,
                     ConfigError("TypeError", "profile must be an object", name), NoProfile)
  ELSE IF profileData.hooks # Undefined
    THEN ProfileCall("threw", name, profileData,
                     ConfigError("TypeError", "hooks must be an object", name), NoProfile)
  ELSE ProfileCall("constructed", name, profileData, NoConfigError,
                   Profile(name, rootDirPath, {}, ObjectAssignToEmpty(profileData.data)))

\* readProfiles' loop over Object.entries(configData["profiles"]): the first
\* constructor that throws ends it.
RECURSIVE ReadProfiles(_, _, _)
ReadProfiles(rootDirPath, entries, profiles) ==
  IF entries = <<>>
    THEN [error |-> NoConfigError, profiles |-> profiles]
    ELSE LET made == ConstructProfile(Head(entries).name, rootDirPath,
                                      Head(entries).profileData)
         IN  IF made.pc = "threw"
               THEN [error |-> made.error, profiles |-> {}]
               ELSE ReadProfiles(rootDirPath, Tail(entries),
                                 {p \in profiles : p.name # made.profile.name}
                                   \cup {made.profile})

\* new Config(filePath, configData), with path.dirname(filePath) = Root
ConstructConfig(configData) ==
  IF ~configData.isObject
    THEN ConfigCall("threw", configData,
                    ConfigError("TypeError", "configration must be an object", <<>>), {})
  ELSE IF configData.profiles = "undefined"
    THEN ConfigCall("constructed", configData, NoConfigError, {})
  ELSE IF configData.profiles # "object"
    THEN ConfigCall("threw", configData,
                    ConfigError("TypeError", "'profiles' must be an object", <<>>), {})
  ELSE LET read == ReadProfiles(Root, configData.entries, {})
       IN  ConfigCall(IF read.error = NoConfigError THEN "constructed" ELSE "threw",
                      configData, read.error, read.profiles)

\* The profile names of the configurations: a parent, two subprofiles of it
\* and a name with two underscores.
ConfigNames == {<<"a">>, <<"a", "_", "0">>, <<"a", "_", "a">>, <<"a", "_", "_", "0">>}

\* The "profiles" objects: every choice of those names in every order.
ProfileEntries(names) ==
  [i \in DOMAIN names |->
     [name |-> names[i],
      profileData |-> ProfileData(TRUE, Undefined, ObjectValue({<<"nyan", "cat">>}))]]
ConfigDatas ==
  {ConfigData(FALSE, "undefined", <<>>), ConfigData(TRUE, "undefined", <<>>),
   ConfigData(TRUE, "number", <<>>)}
    \cup {ConfigData(TRUE, "object", ProfileEntries(names)) :
            names \in {q \in SeqsUpTo(ConfigNames, Cardinality(ConfigNames)) :
                         \A i, j \in DOMAIN q : i # j => q[i] # q[j]}}

\* path.resolve of an absolute directory and two relative segments
PathResolve(from, dir, name) == <<from, dir, name>>

\* A directory name that is the whole profile name.
SplitFirstWhole(name) == name

\* name.split("_")[0]
RECURSIVE SplitFirst(_)
SplitFirst(name) ==
  IF name = <<>> \/ Head(name) = "_"
    THEN <<>>
    ELSE <<Head(name)>> \o SplitFirst(Tail(name))

\* Profile#tasksDirPath()
TasksDirPath(profile) ==
  PathResolve(profile.rootDirPath, "tasks", SplitFirst(profile.name))

\* Profile#screenshotsDirPath()
ScreenshotsDirPath(profile) ==
  PathResolve(profile.rootDirPath, "screenshots", profile.name)

\* No constructor called yet.
ProfileInit ==
  /\ RunNotCalled
  /\ FindIdle
  /\ ShotIdle
  /\ ConfigIdle

\* One constructor call is looked at in a run: none was made yet.
NoneConstructed == profileCall.pc = "idle" /\ configCall.pc = "idle"

\* `new Profile(name, Root, profileData)` is evaluated.
NewProfile(name, profileData) ==
  /\ NoneConstructed
  /\ profileCall' = ConstructProfile(name, Root, profileData)
  /\ UNCHANGED <<runVars, findVars, shotVars, baseCall, search, configCall, initVars>>

\* `new Config(filePath, configData)` is evaluated.
NewConfig(configData) ==
  /\ NoneConstructed
  /\ configCall' = ConstructConfig(configData)
  /\ UNCHANGED <<runVars, findVars, shotVars, baseCall, search, profileCall, initVars>>

ProfileNext ==
  \/ /\ NoneConstructed
     /\ \E name \in Names, profileData \in ProfileDatas : NewProfile(name, profileData)
  \/ /\ NoneConstructed
     /\ \E configData \in ConfigDatas : NewConfig(configData)

ProfileSpec == ProfileInit /\ [][ProfileNext]_vars

\* initialConfig, the content initConfig writes; parsed it is { profiles: {} }.
InitialConfig == "{\n  \"profiles\": {}\n}\n"

\* What a configuration file may hold between two calls of initConfig: it is
\* missing, the user's text, a configuration written by json5.stringify, or
\* the initial configuration.
FileContents == {NoFile, "nyancat", "{profiles:{}}", InitialConfig}

\* The error of a failed file system call: its code and the call.
FsError(code, syscall) == [code |-> code, syscall |-> syscall]
NoFsError == FsError("none", "none")

\* No initConfig called; configuration files may exist.
InitConfigInit ==
  /\ RunNotCalled
  /\ FindIdle
  /\ ShotIdle
  /\ ConfigIdle

\* Between two calls of initConfig the user creates, changes or removes the
\* configuration file of a directory.
FileChanges(dir, content) ==
  /\ initPc \in {"idle", "resolved", "rejected"}
  /\ files[dir] # content
  /\ files' = [files EXCEPT ![dir] = content]
  /\ initPc' = "idle"
  /\ initError' = NoFsError
  /\ initLogged' = {}
  /\ filesAtCall' = files'
  /\ UNCHANGED <<runVars, findVars, shotVars, baseCall, search, profileVars, initCwd>>

\* initConfig(cwd) is called: it runs up to `await statAsync(configFilePath)`.
InitConfigCall(cwd) ==
  /\ initPc \in {"idle", "resolved", "rejected"}
  /\ initPc' = "stat"
  /\ initCwd' = cwd
  /\ initError' = NoFsError
  /\ initLogged' = {}
  /\ filesAtCall' = files
  /\ UNCHANGED <<runVars, findVars, shotVars, baseCall, search, profileVars, files>>

\* A stat whose every outcome but a failure is taken for ENOENT.
StatSettlesAlwaysMissing(fails) ==
  /\ initPc = "stat"
  /\ IF fails
       THEN initPc' = "rejected" /\ initError' = FsError("EACCES", "stat")
       ELSE initPc' = "write" /\ UNCHANGED initError
  /\ UNCHANGED <<runVars, findVars, shotVars, baseCall, search, profileVars, files, initCwd, initLogged,
                 filesAtCall>>

\* statAsync settles. It rejects with ENOENT when the file is missing, which
\* makes initConfig call writeFileAsync; any other rejection (`fails`) is
\* thrown again; when it resolves, initConfig logs an error and returns.
StatSettles(fails) ==
  /\ initPc = "stat"
  /\ IF fails
       THEN /\ initPc' = "rejected"
            /\ initError' = FsError("EACCES", "stat")
            /\ UNCHANGED initLogged
       ELSE IF files[initCwd] = NoFile
         THEN /\ initPc' = "write"
              /\ UNCHANGED <<initError, initLogged>>
         ELSE /\ initPc' = "resolved"
              /\ initLogged' = {"error: Project is already initialized."}
              /\ UNCHANGED initError
  /\ UNCHANGED <<runVars, findVars, shotVars, baseCall, search, profileVars, files, initCwd, filesAtCall>>

\* writeFileAsync(configFilePath, initialConfig, "utf8") settles.
WriteSettles(fails) ==
  /\ initPc = "write"
  /\ IF fails
       THEN /\ initPc' = "rejected"
            /\ initError' = FsError("EACCES", "open")
            /\ UNCHANGED <<files, initLogged>>
       ELSE /\ initPc' = "resolved"
            /\ files' = [files EXCEPT ![initCwd] = InitialConfig]
            /\ initLogged' = {"info: Initialized project"}
            /\ UNCHANGED initError
  /\ UNCHANGED <<runVars, findVars, shotVars, baseCall, search, profileVars, initCwd, filesAtCall>>

InitConfigNext ==
  \/ \E dir \in Dirs, content \in FileContents : FileChanges(dir, content)
  \/ \E cwd \in Dirs : InitConfigCall(cwd)
  \/ \E fails \in BOOLEAN : StatSettles(fails)
  \/ \E fails \in BOOLEAN : WriteSettles(fails)

InitConfigSpec == InitConfigInit /\ [][InitConfigNext]_vars

\* A root that no directory equals, as path.parse gives for a relative path.
PathRootEmpty(cwd) == ""

\* path.parse(cwd).root of an absolute path (cwd is process.cwd())
PathRoot(cwd) == "/"

\* path.resolve(dirPath, "..")
DirParent(dirPath) ==
  CASE dirPath = "/project/child" -> "/project"
    [] dirPath = "/project" -> "/"
    [] dirPath = "/" -> "/"

\* json5.parse(content) and new Config(filePath, data) both return.
Loads(content) == content \in {"{profiles:{}}", InitialConfig}

\* loadConfig(cwd) is called: searchConfig starts reading in cwd.
LoadConfigCall(cwd) ==
  /\ search.pc = "idle"
  /\ search' = Search("reading", cwd, cwd, "none", "none")
  /\ UNCHANGED <<runVars, findVars, shotVars, profileVars, initVars, baseCall>>

\* readFileAsync(configFilePath) settles. A rejection other than ENOENT
\* (`fails`) ends the search; ENOENT sends it to the parent directory, or ends
\* it at the root; a content ends it, and loadConfig parses the content and
\* constructs the Config.
ReadSettles(fails) ==
  /\ search.pc = "reading"
  /\ search' =
       IF fails
         THEN [search EXCEPT !.pc = "rejected", !.error = "EACCES"]
       ELSE IF files[search.dirPath] # NoFile
         THEN IF Loads(files[search.dirPath])
                THEN [search EXCEPT !.pc = "resolved", !.filePath = search.dirPath]
                ELSE [search EXCEPT !.pc = "rejected", !.error = "failed to load",
                                    !.filePath = search.dirPath]
       ELSE IF search.dirPath = PathRoot(search.cwd)
         THEN [search EXCEPT !.pc = "rejected", !.error = "no configuration file found"]
       ELSE [search EXCEPT !.dirPath = DirParent(search.dirPath)]
  /\ UNCHANGED <<runVars, findVars, shotVars, profileVars, initVars, baseCall>>

\* Configuration files are written, then loadConfig is called once.
LoadNext ==
  \/ /\ search.pc = "idle"
     /\ \E dir \in Dirs, content \in FileContents : FileChanges(dir, content)
  \/ \E cwd \in Dirs : LoadConfigCall(cwd)
  \/ \E fails \in BOOLEAN : ReadSettles(fails)

\* A read that is not failing settles.
LoadSpec == ShotInit /\ [][LoadNext]_vars /\ WF_vars(ReadSettles(FALSE))

\* ---------------------------------------------------------------- claims

Given == {taskFilePaths[i] : i \in DOMAIN taskFilePaths}
Settled(p) == taskStatus[p] \in {"ok", "failed"}
InFlight == {p \in Paths : taskStatus[p] = "running"}
PositiveInteger(mc) == mc.kind = "int" /\ mc.val > 0
HookFailed(key) == hookError[key] # NoError

\* C1: runTasks starts each task exactly once: no path is taken from the queue
\* twice (by two workers or by one), only the given paths are taken, and when
\* runTasks has resolved every given path has been taken and has settled.
C1_EachTaskStartedOnce ==
  /\ \A p \in Paths : starts[p] <= 1
  /\ \A p \in Paths : starts[p] > 0 => p \in Given
  /\ \A i \in DOMAIN queue : starts[queue[i]] = 0
  /\ runTasksPc = "resolved" => \A p \in Given : starts[p] = 1 /\ Settled(p)

\* C1 witness: three paths were run by two workers and runTasks has resolved.
C1_Witness ==
  /\ runTasksPc = "resolved"
  /\ Len(taskFilePaths) = 3
  /\ Len(workers) = 2
  /\ \A p \in Given : starts[p] = 1

\* C2: with a positive integer maxConcurrency, the number of tasks in flight
\* (started and not yet settled) is never more than
\* min(number of tasks, maxConcurrency).
C2_InFlightBounded ==
  PositiveInteger(maxConcurrency) =>
    Cardinality(InFlight) <= Min(Len(taskFilePaths), maxConcurrency.val)

\* C2 witness: maxConcurrency = 2, three tasks, two of them in flight and the
\* third still queued.
C2_Witness ==
  /\ maxConcurrency = [kind |-> "int", val |-> 2]
  /\ Len(taskFilePaths) = 3
  /\ Cardinality(InFlight) = 2
  /\ Len(queue) = 1

\* C3: whatever the tasks throw, no worker stops before the queue is empty and
\* runTasks does not reject; once runTasks has ended every task was started.
C3_TaskFailuresIsolated ==
  /\ \A w \in DOMAIN workers : workers[w].pc # "rejected"
  /\ runTasksPc # "rejected"
  /\ runTasksPc \in {"resolved", "rejected"} => \A p \in Given : starts[p] = 1

\* C4: runTasks resolves and logs "All tasks finished!" only when the queue is
\* empty and no task is in flight, and a runTasks call that has ended has
\* logged the line exactly once, whether or not tasks failed.
C4_SummaryAfterAllSettled ==
  /\ (runTasksPc = "resolved" \/ summaries > 0) =>
       queue = <<>> /\ InFlight = {} /\ \A p \in Given : Settled(p)
  /\ summaries <= 1
  /\ runTasksPc \in {"resolved", "rejected"} => summaries = 1

\* C5: no task starts before beforeAll has completed, afterAll does not start
\* before every task has settled, and a task failure never makes the run
\* reject: the run goes on to afterAll whatever the tasks did.
C5_HooksBracketTasks ==
  /\ (\E p \in Paths : starts[p] > 0) => hookPc["beforeAll"] \in {"skipped", "done"}
  /\ hookPc["afterAll"] # "idle" => \A p \in Given : Settled(p)
  /\ runError.from # "runTask"
  /\ runPc \in {"afterAll", "closing", "resolved"} => \A p \in Given : Settled(p)

\* C6: a failed hook aborts the run. When a hook has failed, runHook has
\* rejected with what the hook threw and run is still at that await or has
\* rejected with the same error: it never carries on the way a worker does
\* after a task failure. After a failed beforeAll no task is ever taken from
\* the queue or invoked, runTasks is never called, afterAll is never invoked
\* and no task failure line is logged.
C6_HookFailureAborts ==
  /\ \A key \in hookKeys :
       HookFailed(key) =>
         /\ hookPc[key] = "failed"
         /\ hookError[key].from = key
         /\ runPc \in {key, "rejected"}
         /\ runPc = "rejected" => runError = hookError[key]
  /\ HookFailed("beforeAll") =>
       /\ \A p \in Paths : starts[p] = 0
       /\ invoked = {}
       /\ runTasksPc = "idle"
       /\ hookPc["afterAll"] = "idle"
       /\ logged = {}

\* C6 witness: beforeAll threw, the run has rejected with its error and the
\* command has failed.
C6_Witness ==
  /\ HookFailed("beforeAll")
  /\ runPc = "rejected"
  /\ runError = hookError["beforeAll"]
  /\ commandFailed = runError

\* C7: when a hook failed after the browser was launched, browser.close has
\* been invoked by the time the run has ended.
C7_BrowserClosedAfterHookFailure ==
  ((exited \/ unhandled) /\ browser # "none" /\ runError.from \in hookKeys) => closes > 0

\* C8: once beforeAll has completed the registered arguments are fixed: the
\* object holds what the hook registered while it ran, and every task of the
\* run is called with the same registered entries.
C8_LateRegisterHasNoEffect ==
  /\ hookPc["beforeAll"] = "done" => registeredArgs["foo"] = hookCalls["foo"]
  /\ \A p, q \in invoked : context[p] = context[q]

\* C9: every name the hook registered while it ran is in the args of every
\* task invoked afterwards, with the value the hook gave it.
C9_RegisteredArgsReachTasks ==
  \A p \in invoked :
    \A k \in PropertyKeys : hookCalls[k] # Absent => context[p][k] = hookCalls[k]

\* C10: after a beforeAll hook called register({ foo: 42 }), every task is
\* called with foo = 42 in its args.
C10_ObjectRegisterProvidesFoo ==
  objectCalls => \A p \in invoked : context[p]["foo"] = "42"

\* C11: the browser is launched only after the profile name was validated,
\* the configuration loaded, the profile found and at least one task found:
\* a run that failed at one of these steps has rejected with that error, with
\* no browser launched, no hook called and no task started or invoked.
C11_LaunchAfterDiscovery ==
  /\ launches > 0 =>
       /\ runPc \notin {"start", "loadConfig", "findTasks"}
       /\ Len(taskFilePaths) > 0
  /\ runError.from \in {"assertNameValid", "loadConfig", "getProfile", "findTasks"} =>
       /\ runPc = "rejected"
       /\ launches = 0
       /\ browser = "none"
       /\ \A key \in hookKeys : hookPc[key] = "idle"
       /\ invoked = {}
       /\ \A p \in Paths : starts[p] = 0
  /\ Len(taskFilePaths) = 0 => launches = 0 /\ runPc \notin {"launch", "beforeAll"}

\* C11 witness: findTasks found nothing, the run has rejected with its error
\* and the command has failed.
C11_Witness ==
  /\ runError.from = "findTasks"
  /\ commandFailed = runError
  /\ launches = 0

Range(arr) == {arr[i] : i \in DOMAIN arr}
\* What the patterns of a findTasks call match, one set of files per pattern.
MatchSets == {{e \in tasksDir : Matches(g, e)} : g \in Range(CompletedGlobs(globs))}
Occurrences(arr, e) == Cardinality({i \in DOMAIN arr : arr[i] = e})

\* C12: findTasks never resolves with an empty list. It rejects with "no tasks
\* found" exactly when the patterns it globbed (the given ones, or the default
\* one for an empty glob list) match no file; otherwise it resolves with a
\* list that is not empty.
C12_NeverResolvesEmpty ==
  LET matched == UNION MatchSets
  IN /\ findPc = "resolved" => Len(found) > 0 /\ matched # {}
     /\ findPc = "rejected" => findError = "no tasks found" /\ matched = {}
     /\ findPc = "rejected" => found = <<>>

\* C12 witness: findTasks with no globs rejected on a directory that holds
\* files, none of them a task file.
C12_Witness ==
  /\ findPc = "rejected"
  /\ globs = <<>>
  /\ tasksDir = {Tree[1], Tree[2]}

\* C13: findTasks resolves with the union of what each pattern matches:
\* a file matched by at least one pattern is in the list exactly once, however
\* many patterns match it, and a file no pattern matches is not in it.
C13_UnionEachOnce ==
  findPc = "resolved" =>
    \A e \in Entries :
      Occurrences(found, e) = IF e \in UNION MatchSets THEN 1 ELSE 0

\* C13 witness: nyancat.js is matched by both patterns of
\* ["**/*.js", "nyancat.js"], and the result holds three files once each.
C13_Witness ==
  /\ findPc = "resolved"
  /\ globs = <<DefaultGlob, Pattern(<<>>, FALSE, "nyancat", "js")>>
  /\ Len(found) = 3
  /\ Occurrences(found, Tree[3]) = 1

C15_AbsentHookReturnsEmptyMap ==
  \A key \in hookKeys :
    hookPc[key] = "skipped" =>
      /\ key \notin required
      /\ hookArgs[key] = {}
      /\ hookResult[key] = "<registeredArgs>"
      /\ registeredArgs = EmptyObject

\* C16: a hook function is called with profile, browser, getLogger and sleep,
\* never with screenshot, and with register exactly when registration is
\* enabled, which a run does for beforeAll only. runHook(afterAll) hands no
\* registered arguments back to the run, and from the moment afterAll starts
\* the args of no task change.
C16_OnlyBeforeAllRegisters ==
  /\ [](\A key \in hookKeys :
          /\ hookArgs[key] # {} =>
               /\ hookArgs[key] \ {"register"} = {"profile", "browser", "getLogger", "sleep"}
               /\ "register" \in hookArgs[key] <=> key = "beforeAll"
          /\ hookPc[key] \in {"running", "done"} => hookArgs[key] # {}
          /\ key # "beforeAll" => hookResult[key] \in {"<none>", Undefined})
  /\ [][hookPc["afterAll"] # "idle" => context' = context]_vars

\* C16 witness: the afterAll hook is running, without register in its args,
\* after a task was called with the foo that beforeAll registered.
C16_Witness ==
  /\ hookPc["afterAll"] = "running"
  /\ hookArgs["afterAll"] = {"profile", "browser", "getLogger", "sleep"}
  /\ hookArgs["beforeAll"] = {"profile", "browser", "getLogger", "sleep", "register"}
  /\ \E p \in invoked : context[p]["foo"] = "42"

\* C17: for a key other than "beforeAll" and "afterAll", runHook rejects with
\* the "unknown hook key" error, having required no module and called no hook
\* function, whatever hooks the profile declares.
C17_UnknownKeyRejected ==
  \A key \in HookCallKeys \ hookKeys :
    hookPc[key] # "idle" =>
      /\ hookPc[key] = "failed"
      /\ hookError[key] = Thrown("unknown hook key", "Error")
      /\ required = {}
      /\ hookArgs[key] = {}

\* C18: a name registered by beforeAll that is also a field runTask sets
\* (profile, browser, getLogger, sleep, screenshot) reaches the task with the
\* registered value; a fixed field nobody registered keeps runTask's value.
C18_RegisteredOverridesFixed ==
  \A p \in invoked :
    \A k \in FixedKeys :
      context[p][k] = IF hookCalls[k] # Absent THEN hookCalls[k] ELSE "<fixed>"

\* C18 witness: beforeAll registered "screenshot" and the task was called with
\* the registered value as screenshot and with runTask's own profile.
C18_Witness ==
  /\ hookCalls["screenshot"] = "42"
  /\ 1 \in invoked
  /\ context[1]["screenshot"] = "42"
  /\ context[1]["profile"] = "<fixed>"

\* C19: with a maxConcurrency that is missing, NaN, not an integer, zero or
\* negative, runTasks has exactly one worker and the tasks run one after the
\* other: at most one task is started and not yet settled.
C19_InvalidMeansSequential ==
  ~PositiveInteger(maxConcurrency) =>
    /\ runTasksPc # "idle" => Len(workers) = 1
    /\ Cardinality({p \in Paths : starts[p] > 0 /\ ~Settled(p)}) <= 1

\* C19 witness: maxConcurrency is NaN; of three tasks one has settled, one is
\* running and one is still in the queue.
C19_Witness ==
  /\ maxConcurrency.kind = "NaN"
  /\ Len(taskFilePaths) = 3
  /\ Len(queue) = 1
  /\ Cardinality(InFlight) = 1
  /\ \E p \in Paths : starts[p] = 1 /\ Settled(p)

\* The screenshot calls of task t, in call order.
OwnShots(t) == SelectSeq(shots, LAMBDA shot : shot.task = t)

\* The paths a path generator of its own gives to a sequence of calls.
RECURSIVE Replay(_, _, _)
Replay(t, calls, c) ==
  IF calls = <<>>
    THEN <<>>
    ELSE LET generated == GenFilePath(t, c, TypeOf(Head(calls).optsType), Head(calls).name)
         IN <<generated.path>> \o Replay(t, Tail(calls), generated.counter)

\* C20: each task has a screenshot function with a counter of its own.
\* However the calls of the tasks interleave, the paths of a task's calls are
\* those a fresh generator gives to that task's calls alone, in their order.
C20_CounterPerTask ==
  \A t \in ShotTasks :
    [i \in DOMAIN OwnShots(t) |-> OwnShots(t)[i].path] = Replay(t, OwnShots(t), 0)

\* C20 witness: task 1, task 2 and task 1 again took unnamed png screenshots;
\* task 2's has no suffix and the second of task 1 has the suffix "-1".
C20_Witness ==
  /\ Len(shots) = 3
  /\ \A i \in 1..3 : shots[i].name = Undefined /\ shots[i].optsType = "png"
  /\ shots[1].task = 1 /\ shots[2].task = 2 /\ shots[3].task = 1
  /\ shots[2].path = FilePath(2, FALSE, "", ".png")
  /\ shots[3].path = FilePath(1, TRUE, "1", ".png")

\* The unnamed calls that got a path, among the first n calls, made by task t.
UnnamedBefore(t, n) ==
  {j \in 1..n : shots[j].task = t /\ shots[j].name = Undefined /\ ~shots[j].threw}

C22_NamedLeaveCounter ==
  /\ \A i, j \in DOMAIN shots :
       (/\ shots[i].task = shots[j].task
        /\ shots[i].name # Undefined /\ ~shots[i].threw
        /\ shots[i].name = shots[j].name
        /\ TypeOf(shots[i].optsType) = TypeOf(shots[j].optsType)) =>
         shots[i].path = shots[j].path
  /\ \A t \in ShotTasks :
       LET unnamed == SelectSeq(OwnShots(t), LAMBDA shot : shot.name = Undefined)
       IN [i \in DOMAIN unnamed |-> unnamed[i].path] = Replay(t, unnamed, 0)

\* C22 witness: task 1 made an unnamed call, a named one and another unnamed
\* one; the second unnamed call got <base>-1.png.
C22_Witness ==
  /\ Len(shots) = 3
  /\ \A i \in 1..3 : shots[i].task = 1 /\ shots[i].optsType = "png"
  /\ shots[1].name = Undefined /\ shots[2].name = "nyancat" /\ shots[3].name = Undefined
  /\ shots[2].path = FilePath(1, TRUE, "nyancat", ".png")
  /\ shots[3].path = FilePath(1, TRUE, "1", ".png")

\* C23: two screenshot calls of one task get the same file path only when
\* both are named calls with the same type and the same name.
C23_PathsCollisionFree ==
  \A i, j \in DOMAIN shots :
    (/\ i < j
     /\ shots[i].task = shots[j].task
     /\ ~shots[i].threw /\ ~shots[j].threw
     /\ shots[i].path = shots[j].path) =>
      /\ shots[i].name # Undefined
      /\ shots[i].name = shots[j].name
      /\ TypeOf(shots[i].optsType) = TypeOf(shots[j].optsType)


\* C24: a screenshot call whose opts.type is a string that is no recognized
\* image type rejects with 'unknown type', gets no file path, creates no
\* directory and never invokes the target's screenshot.
C24_UnknownTypeRejects ==
  \A i \in DOMAIN shots :
    (shots[i].optsType \notin {Undefined, Number42} \cup DOMAIN ExtByType) =>
      /\ shots[i].threw
      /\ shots[i].path = NoPath
      /\ captures[i] = Capture("rejected", "unknown type", "none", NoCapture)

C24_Witness ==
  \E i, j \in DOMAIN shots :
    /\ i < j
    /\ shots[i].optsType = "nyancat"
    /\ captures[i].pc = "rejected"
    /\ captures[j].pc = "resolved"

\* C25: the target's capture is invoked only after the creation of the parent
\* directory succeeded; when that creation fails the capture is never invoked;
\* a call rejects with the error of the step that failed.
C25_MkdirpBeforeCapture ==
  \A i \in DOMAIN captures :
    /\ captures[i].capture # NoCapture => captures[i].mkdirp = "ok"
    /\ captures[i].mkdirp = "failed" =>
         /\ captures[i].capture = NoCapture
         /\ captures[i].pc = "rejected"
         /\ captures[i].error = "mkdirp"
    /\ captures[i].error = "mkdirp" => captures[i].mkdirp = "failed"
    /\ captures[i].error = "capture" =>
         captures[i].pc = "rejected" /\ captures[i].capture # NoCapture
    /\ captures[i].pc = "resolved" =>
         captures[i].error = "none" /\ captures[i].capture # NoCapture

C25_Witness ==
  \E i, j \in DOMAIN captures :
    /\ captures[i].mkdirp = "failed"
    /\ captures[j].error = "capture"

\* C30 (as stated): the capture uses opts.type when it is a recognized type and
\* png in every other case, an unrecognized string included.
C30_PngInEveryOtherCase ==
  \A i \in DOMAIN shots :
    LET type == TypeOfRecognized(shots[i].optsType) IN
      /\ ~shots[i].threw
      /\ shots[i].path.ext = ExtByType[type]
      /\ captures[i].capture \in {NoCapture, type}

\* C30 (amended): the capture uses opts.type when it is a recognized type
\* string, and png when opts.type is absent or is no string; a call whose
\* opts.type is an unrecognized string rejects and captures nothing.
C30_PngWhenNoString ==
  \A i \in DOMAIN shots :
    LET optsType == shots[i].optsType
        type == IF optsType \in {Undefined, Number42} THEN "png" ELSE optsType
    IN  IF type \in DOMAIN ExtByType
          THEN /\ ~shots[i].threw
               /\ shots[i].path.ext = ExtByType[type]
               /\ captures[i].capture \in {NoCapture, type}
          ELSE shots[i].threw /\ captures[i].capture = NoCapture

C30_Witness ==
  \E i, j \in DOMAIN shots :
    /\ shots[i].optsType = Number42
    /\ captures[i].capture = "png"
    /\ shots[j].optsType = "jpeg"
    /\ captures[j].capture = "jpeg"

\* A name of the form the documentation gives: not empty, only letters, digits
\* and underscores, no underscore first or last, at most one underscore.
ValidName(name) ==
  /\ name # <<>>
  /\ \A i \in DOMAIN name : name[i] \in Alnum \cup {"_"}
  /\ name[1] # "_"
  /\ name[Len(name)] # "_"
  /\ Cardinality({i \in DOMAIN name : name[i] = "_"}) <= 1

\* The Profile objects a caller holds: the one a `new Profile` gave and those
\* a Config keeps.
ObservableProfiles ==
  (IF profileCall.pc = "constructed" THEN {profileCall.profile} ELSE {})
    \cup configCall.profiles

\* The part of a name before its first underscore: the prefix without an
\* underscore that is the whole name or is followed by one.
ParentOf(name) ==
  CHOOSE parent \in {SubSeq(name, 1, k) : k \in 0..Len(name)} :
    /\ \A i \in DOMAIN parent : parent[i] # "_"
    /\ Len(parent) = Len(name) \/ name[Len(parent) + 1] = "_"

\* C26: constructing a Profile with an invalid name, directly or as an entry of
\* a Config's "profiles", throws 'invalid profile name', and every Profile
\* object there is has a valid name.
C26_InvalidNameRejected ==
  /\ (profileCall.pc # "idle" /\ ~ValidName(profileCall.name)) =>
       /\ profileCall.pc = "threw"
       /\ profileCall.error = ConfigError("Error", "invalid profile name", profileCall.name)
  /\ (\E i \in DOMAIN configCall.configData.entries :
        ~ValidName(configCall.configData.entries[i].name)) =>
       /\ configCall.pc = "threw"
       /\ configCall.error.message = "invalid profile name"
       /\ ~ValidName(configCall.error.name)
  /\ \A profile \in ObservableProfiles : ValidName(profile.name)

C26_Witness ==
  /\ configCall.pc = "threw"
  /\ Len(configCall.configData.entries) >= 2
  /\ ValidName(configCall.configData.entries[1].name)
  /\ configCall.error = ConfigError("Error", "invalid profile name", <<"a", "_", "_", "0">>)
  /\ configCall.profiles = {}

\* C27: tasksDirPath is <root>/tasks/<the name up to its first underscore> and
\* screenshotsDirPath is <root>/screenshots/<the name>; the profiles of one
\* parent have the same tasks directory, and two profiles never have the same
\* screenshots directory.
C27_DirPaths ==
  /\ \A profile \in ObservableProfiles :
       /\ TasksDirPath(profile) = <<Root, "tasks", ParentOf(profile.name)>>
       /\ ScreenshotsDirPath(profile) = <<Root, "screenshots", profile.name>>
  /\ \A p, q \in ObservableProfiles :
       /\ ParentOf(p.name) = ParentOf(q.name) => TasksDirPath(p) = TasksDirPath(q)
       /\ p.name # q.name => ScreenshotsDirPath(p) # ScreenshotsDirPath(q)

C27_Witness ==
  /\ configCall.pc = "constructed"
  /\ {profile.name : profile \in configCall.profiles}
       = {<<"a">>, <<"a", "_", "0">>, <<"a", "_", "a">>}

\* C28: profile.data is the "data" the profile's configuration gives, whatever
\* value that is.
C28_DataVerbatim ==
  (profileCall.pc = "constructed" /\ profileCall.profileData.data # UndefinedValue) =>
    profileCall.profile.data = profileCall.profileData.data

\* C29: initConfig leaves an existing configuration file as it is; it creates
\* a missing one with the initial configuration; when the stat fails with
\* another error than ENOENT it rejects with that error and writes nothing.
\* No other directory's file is touched.
C29_NeverOverwrites ==
  initPc # "idle" =>
    /\ \A dir \in Dirs \ {initCwd} : files[dir] = filesAtCall[dir]
    /\ filesAtCall[initCwd] # NoFile => files = filesAtCall
    /\ initPc \in {"stat", "write", "rejected"} => files = filesAtCall
    /\ (initPc = "resolved" /\ filesAtCall[initCwd] = NoFile) =>
         files[initCwd] = InitialConfig
    /\ (initPc = "resolved" /\ filesAtCall[initCwd] # NoFile) =>
         initLogged = {"error: Project is already initialized."}
    /\ (initPc = "write" \/ initError = FsError("EACCES", "open")) =>
         filesAtCall[initCwd] = NoFile
    /\ initError = FsError("EACCES", "stat") => initPc = "rejected"

C29_Witness ==
  /\ initPc = "resolved"
  /\ filesAtCall[initCwd] = "nyancat"
  /\ files[initCwd] = "nyancat"
  /\ \E dir \in Dirs \ {initCwd} : files[dir] = InitialConfig

\* The unnamed calls of task t whose opts.type is an image type, is absent or
\* is no string, among the first n calls.
UnnamedRecognized(t, n) ==
  {j \in 1..n :
     /\ shots[j].task = t
     /\ shots[j].name = Undefined
     /\ shots[j].optsType \in {Undefined, Number42} \cup DOMAIN ExtByType}

\* The number an unnamed call's path carries; the path without a suffix
\* carries 0.
IndexOf(path) ==
  CHOOSE k \in 0..Len(shots) : path.text = (IF k = 0 THEN "" ELSE CounterToString(k))

\* C35: the counter of a path generator is the number of unnamed calls with a
\* recognized type made so far, however their directory creation and capture
\* went or go; an unknown-type call does not count, a call that failed later
\* does, so the unnamed call after it carries the next index.
C35_CounterCountsCalls ==
  /\ \A t \in ShotTasks :
       counter[CounterOf(t)] = Cardinality(UnnamedRecognized(t, Len(shots)))
  /\ \A i \in DOMAIN shots :
       i \in UnnamedRecognized(shots[i].task, i) =>
         /\ ~shots[i].threw
         /\ IndexOf(shots[i].path) = Cardinality(UnnamedRecognized(shots[i].task, i - 1))

C35_Witness ==
  /\ Len(shots) = 2
  /\ shots[1].name = Undefined /\ shots[2].name = Undefined
  /\ captures[1].pc = "rejected" /\ captures[1].error = "mkdirp"
  /\ captures[2].pc = "resolved"
  /\ shots[2].path = FilePath(1, TRUE, "1", ".png")
  /\ counter[CounterOf(1)] = 2

\* C36: unnamed calls of one task get distinct paths with indices in call
\* order, also when a later call is made while an earlier one is still
\* awaiting its directory or its capture.
C36_InFlightDistinct ==
  \A i, j \in DOMAIN shots :
    (/\ i < j
     /\ shots[i].task = shots[j].task
     /\ shots[i].name = Undefined /\ shots[j].name = Undefined
     /\ ~shots[i].threw /\ ~shots[j].threw) =>
      /\ shots[i].path # shots[j].path
      /\ IndexOf(shots[i].path) < IndexOf(shots[j].path)

C36_Witness ==
  /\ Len(shots) = 2
  /\ captures[1].pc = "mkdirp" /\ captures[2].pc = "mkdirp"
  /\ shots[1].path = FilePath(1, FALSE, "", ".png")
  /\ shots[2].path = FilePath(1, TRUE, "1", ".png")

\* C31: the screenshot base name is the task's relative path without a
\* trailing ".js"; a relative path that does not end in ".js" is its own base
\* name.
C31_StripsOnlyDotJs ==
  baseCall.pc = "called" =>
    LET name == baseCall.taskFileName
        n == Len(name)
    IN  baseCall.screenshotFileName =
          IF n >= 3 /\ SubSeq(name, n - 2, n) = <<".", "j", "s">>
            THEN SubSeq(name, 1, n - 3)
            ELSE name

\* A directory and its ancestors, nearest first.
Upward(dir) ==
  CASE dir = "/project/child" -> <<"/project/child", "/project", "/">>
    [] dir = "/project" -> <<"/project", "/">>
    [] dir = "/" -> <<"/">>

\* The directories loadConfig found no configuration file in before it came
\* to dirPath.
Passed(cwd, dirPath) ==
  LET up == Upward(cwd)
  IN  {up[i] : i \in {i \in DOMAIN up : \A j \in 1..i : up[j] # dirPath}}

C37_LaunchedAndClosedOnce ==
  /\ launches <= 1 /\ closes <= 1
  /\ closes > 0 =>
       /\ hookPc["afterAll"] \in {"skipped", "done"}
       /\ \A p \in Given : Settled(p)
  /\ (/\ runPc \in {"resolved", "rejected"}
      /\ browser # "none"
      /\ \A key \in hookKeys : hookPc[key] # "failed") =>
       launches = 1 /\ closes = 1

\* C34: when every hook and every task settles, a run comes to an end: every
\* worker loop ends and runTasks, once called, resolves; run completes or
\* rejects.
C34_RunTerminates ==
  /\ (runTasksPc = "awaiting" ~>
        (runTasksPc = "resolved" /\ \A w \in DOMAIN workers : workers[w].pc = "done"))
  /\ <>(runPc \in {"resolved", "rejected"})

\* C33: a task that never settles blocks its own worker only. runTasks never
\* resolves and afterAll never starts; with two or more workers every other
\* task of the run is started and settles.
C33_HungTaskBlocksOneWorker ==
  /\ [](Hung \in Given => runTasksPc # "resolved" /\ hookPc["afterAll"] = "idle")
  /\ ((Hung \in Given /\ runTasksPc = "awaiting" /\ Len(workers) >= 2) ~>
        (\A p \in Given \ {Hung} : starts[p] = 1 /\ Settled(p)))
====
